---- MODULE Spec2Model ----
(***************************************************************************)
(* A model of the Canvas-2D rendering context of skia-canvas                *)
(* (native/src/context/mod.rs): Context2D, its State, the state stack, the  *)
(* paint resolution and the drawing operations, with the Skia surface       *)
(* reduced to what the context asks of it (a save/restore stack of          *)
(* transforms and a log of the draw calls it receives).                     *)
(*                                                                         *)
(* Numbers.  A colour is [rgb, a] with an 8-bit alpha a in 0..255.          *)
(* global_alpha is an f32 in the code; here it is counted in tenths, so     *)
(* AlphaOne (10) stands for 1.0.  Lengths (blur, offsets, origins) are      *)
(* integers.  A matrix is [sx, sy, tx, ty, den], the map                    *)
(* (x, y) |-> ((sx * x + tx) / den, (sy * y + ty) / den) with den > 0.      *)
(***************************************************************************)
EXTENDS Integers, Sequences, FiniteSets, TLC

VARIABLES
  surface,      \* Context2D.surface: "None" or "Some"
  path,         \* Context2D.path, the Path Buffer (an identifier of its contents)
  state_stack,  \* Context2D.state_stack: Seq(State)
  state,        \* Context2D.state
  ctm,          \* the surface canvas's total matrix (meaningful when surface = "Some")
  mc_stack,     \* the surface canvas's save stack: the matrices saved by canvas.save()
  op,           \* history: the operation that ran last
  outcome,      \* history: "ok" when it returned, "panic" when it aborted
  queue,        \* the ref queue the binding keeps on the JavaScript object, or NoValue
  calls,        \* history: the calls the last operation issued to the canvas, in order
  result,       \* history: what the last operation returned
  arg,          \* history: what the last operation was given (where a claim needs it)
  net,          \* history: number of push calls minus number of pop calls so far
  ignored,      \* history: number of pop calls made on an empty state_stack
  saved,        \* history: for each outstanding push, the State and path right before it
  matched       \* history: the entry of saved the last pop matched, or NoValue

vars == <<surface, path, state_stack, state, ctm, mc_stack, queue, op, outcome, calls,
          result, arg, net, ignored, saved, matched>>

(***************************************************************************)
(* Bounds of the model.                                                     *)
(***************************************************************************)
MaxDepth == 2       \* deepest state_stack explored by the stack specification
MaxDrawDepth == 1   \* deepest state_stack explored by the other specifications
MaxIgnored == 2     \* most pop calls on an empty state_stack

NoValue == [kind |-> "None"]

Some(v) == [kind |-> "Some", val |-> v]

(***************************************************************************)
(* Values.                                                                  *)
(***************************************************************************)
AlphaOne == 10
MaxAlpha == 255

BLACK == [rgb |-> "black", a |-> MaxAlpha]
TRANSPARENT == [rgb |-> "black", a |-> 0]
RED == [rgb |-> "red", a |-> MaxAlpha]
FAINT == [rgb |-> "red", a |-> 1]

DyeColor(c) == [kind |-> "Color", color |-> c]
DyeGradient(g) == [kind |-> "Gradient", shader |-> g]
DyePattern(p) == [kind |-> "Pattern", shader |-> p]

Identity == [sx |-> 1, sy |-> 1, tx |-> 0, ty |-> 0, den |-> 1]

\* Paint::default() as configured by Context2D::new
NewPaint ==
  [style |-> "Fill", color |-> BLACK, shader |-> "none", path_effect |-> <<>>,
   image_filter |-> NoValue, blend_mode |-> "SrcOver", anti_alias |-> TRUE,
   stroke_width |-> 1, stroke_miter |-> 10, filter_quality |-> "Low"]

\* Paint::default(), untouched
DefaultPaint ==
  [style |-> "Fill", color |-> BLACK, shader |-> "none", path_effect |-> <<>>,
   image_filter |-> NoValue, blend_mode |-> "SrcOver", anti_alias |-> FALSE,
   stroke_width |-> 0, stroke_miter |-> 4, filter_quality |-> "None"]

NewCharStyle ==
  [font_style |-> "normal", font_families |-> <<>>, font_size |-> 10,
   font_features |-> <<>>]

NewState ==
  [paint |-> NewPaint,
   fill_style |-> DyeColor(BLACK),
   stroke_style |-> DyeColor(BLACK),
   shadow_blur |-> 0,
   shadow_color |-> TRANSPARENT,
   shadow_offset |-> <<0, 0>>,
   global_alpha |-> AlphaOne,
   stroke_width |-> 1,
   line_dash_offset |-> 0,
   line_dash_list |-> <<>>,
   global_composite_operation |-> "SrcOver",
   image_filter_quality |-> "Low",
   image_smoothing_enabled |-> TRUE,
   font |-> "10px monospace",
   font_variant |-> "normal",
   font_features |-> <<>>,
   char_style |-> NewCharStyle,
   graf_style |-> [text_align |-> "Start", text_direction |-> "LTR"],
   text_baseline |-> "Alphabetic",
   text_tracking |-> 0]

Init ==
  /\ surface = "None"
  /\ path = 0
  /\ state_stack = <<>>
  /\ state = NewState
  /\ ctm = Identity
  /\ mc_stack = <<>>
  /\ queue = NoValue
  /\ op = "new"
  /\ outcome = "ok"
  /\ calls = <<>>
  /\ result = NoValue
  /\ arg = NoValue
  /\ net = 0
  /\ ignored = 0
  /\ saved = <<>>
  /\ matched = NoValue

(***************************************************************************)
(* Sequences.                                                               *)
(***************************************************************************)
Last(s) == s[Len(s)]
ButLast(s) == SubSeq(s, 1, Len(s) - 1)

(***************************************************************************)
(* Context2D::push and Context2D::pop.                                      *)
(*                                                                         *)
(* canvas.save() pushes the canvas's matrix on its save stack and           *)
(* canvas.restore() pops it; Skia's restore() on an empty save stack does   *)
(* nothing.                                                                 *)
(***************************************************************************)
canvas_save == mc_stack' = Append(mc_stack, ctm) /\ ctm' = ctm

\* a call to the canvas that draws nothing: save, restore, reset_matrix, set_matrix
CanvasCall(fn, matrix) ==
  [fn |-> fn, site |-> "canvas", geom |-> NoValue, paint |-> NoValue, ctm |-> matrix]

canvas_restore ==
  IF mc_stack # <<>>
    THEN ctm' = Last(mc_stack) /\ mc_stack' = ButLast(mc_stack)
    ELSE UNCHANGED <<ctm, mc_stack>>

Returns(name, value) ==
  /\ op' = name
  /\ outcome' = "ok"
  /\ result' = value
  /\ arg' = NoValue
  /\ queue' = queue

Push ==
  /\ state_stack' = Append(state_stack, state)
  /\ state' = state
  /\ IF surface = "Some" THEN canvas_save ELSE UNCHANGED <<ctm, mc_stack>>
  /\ Returns("push", NoValue)
  /\ calls' = IF surface = "Some" THEN <<CanvasCall("save", ctm)>> ELSE <<>>
  /\ net' = net + 1
  /\ saved' = Append(saved, [state |-> state, path |-> path,
                             backend |-> surface = "Some"])
  /\ matched' = NoValue
  /\ UNCHANGED <<surface, path, ignored>>

\* The history a pop leaves behind, whatever the pop does to the context.
PopHistory ==
  /\ Returns("pop", NoValue)
  /\ calls' = IF surface = "Some" THEN <<CanvasCall("restore", ctm)>> ELSE <<>>
  /\ net' = net - 1
  /\ ignored' = IF state_stack = <<>> THEN ignored + 1 ELSE ignored
  /\ matched' = IF saved # <<>>
                  THEN [kind |-> "Saved", state |-> Last(saved).state,
                        path |-> Last(saved).path, backend |-> Last(saved).backend,
                        live |-> state]
                  ELSE NoValue
  /\ saved' = IF saved # <<>> THEN ButLast(saved) ELSE saved

\* pop that reads the top of the stack without removing it
Pop_Peek ==
  /\ IF state_stack # <<>>
       THEN state' = Last(state_stack) /\ state_stack' = state_stack
       ELSE UNCHANGED <<state, state_stack>>
  /\ IF surface = "Some" THEN canvas_restore ELSE UNCHANGED <<ctm, mc_stack>>
  /\ PopHistory
  /\ UNCHANGED <<surface, path>>

\* pop that falls back to the default State when nothing is saved
Pop_Reset ==
  /\ IF state_stack # <<>>
       THEN state' = Last(state_stack) /\ state_stack' = ButLast(state_stack)
       ELSE state' = NewState /\ state_stack' = state_stack
  /\ IF surface = "Some" THEN canvas_restore ELSE UNCHANGED <<ctm, mc_stack>>
  /\ PopHistory
  /\ UNCHANGED <<surface, path>>

\* pop that drops the saved State instead of making it current
Pop_Discard ==
  /\ state' = state
  /\ state_stack' = IF state_stack # <<>> THEN ButLast(state_stack) ELSE state_stack
  /\ IF surface = "Some" THEN canvas_restore ELSE UNCHANGED <<ctm, mc_stack>>
  /\ PopHistory
  /\ UNCHANGED <<surface, path>>

\* pop that treats the path as part of the snapshot
Pop_Path ==
  /\ IF state_stack # <<>>
       THEN state' = Last(state_stack) /\ state_stack' = ButLast(state_stack)
       ELSE UNCHANGED <<state, state_stack>>
  /\ IF surface = "Some" THEN canvas_restore ELSE UNCHANGED <<ctm, mc_stack>>
  /\ PopHistory
  /\ path' = IF saved # <<>> THEN Last(saved).path ELSE path
  /\ UNCHANGED surface

Pop ==
  /\ IF state_stack # <<>>
       THEN state' = Last(state_stack) /\ state_stack' = ButLast(state_stack)
       ELSE UNCHANGED <<state, state_stack>>
  /\ IF surface = "Some" THEN canvas_restore ELSE UNCHANGED <<ctm, mc_stack>>
  /\ PopHistory
  /\ UNCHANGED <<surface, path>>

(***************************************************************************)
(* The callers of Context2D (the JavaScript binding): attaching the         *)
(* surface, editing the path, setting the fields of State.                  *)
(***************************************************************************)
Paths == {0, 1}
StackDyes == {DyeColor(BLACK), DyeGradient("g1"), DyePattern("p1")}

Sets(name) ==
  /\ Returns(name, NoValue)
  /\ calls' = <<>>
  /\ matched' = NoValue
  /\ UNCHANGED <<surface, path, state_stack, ctm, mc_stack, net, ignored, saved>>

AttachSurface ==
  /\ surface = "None"
  /\ surface' = "Some"
  /\ ctm' = Identity
  /\ mc_stack' = <<>>
  /\ Returns("attach", NoValue)
  /\ calls' = <<>>
  /\ matched' = NoValue
  /\ UNCHANGED <<path, state_stack, state, net, ignored, saved>>

PathOp ==
  /\ \E p \in Paths \ {path} : path' = p
  /\ Returns("path_op", NoValue)
  /\ calls' = <<>>
  /\ matched' = NoValue
  /\ UNCHANGED <<surface, state_stack, state, ctm, mc_stack, net, ignored, saved>>

SetFillStyle(dyes) ==
  /\ \E d \in dyes \ {state.fill_style} : state' = [state EXCEPT !.fill_style = d]
  /\ Sets("set_fill_style")

(***************************************************************************)
(* The stack specification: save/restore with style and path changes in     *)
(* between.                                                                 *)
(***************************************************************************)
PopAllowed == state_stack = <<>> => ignored < MaxIgnored

NextStack ==
  \/ Len(state_stack) < MaxDepth /\ Push
  \/ PopAllowed /\ Pop
  \/ SetFillStyle(StackDyes)
  \/ PathOp
  \/ AttachSurface

SpecStack == Init /\ [][NextStack]_vars

(***************************************************************************)
(* Paint resolution.                                                        *)
(*                                                                         *)
(* color_with_alpha converts the 8-bit colour to floats, multiplies the     *)
(* alpha by global_alpha and converts back, which pins the alpha to [0, 1]  *)
(* and rounds it to the nearest of 0..255.                                  *)
(***************************************************************************)
color_with_alpha(st, src) ==
  LET num == src.a * st.global_alpha     \* the scaled alpha, in 1/AlphaOne
      a == IF num <= 0 THEN 0
           ELSE IF num >= MaxAlpha * AlphaOne THEN MaxAlpha
           ELSE (2 * num + AlphaOne) \div (2 * AlphaOne)
  IN  [rgb |-> src.rgb, a |-> a]

set_dye(st, paint, dye) ==
  IF dye.kind = "Color"
    THEN [paint EXCEPT !.color = color_with_alpha(st, dye.color)]
    ELSE [paint EXCEPT !.shader = dye.shader]

paint_for_fill(st) ==
  set_dye(st, [st.paint EXCEPT !.style = "Fill"], st.fill_style)

RECURSIVE interval_sum(_)
interval_sum(intervals) ==
  IF intervals = <<>> THEN 0 ELSE Head(intervals) + interval_sum(Tail(intervals))

\* dash_path_effect::new, which hands back no effect for a list Skia rejects:
\* fewer than two intervals, an odd count, a negative interval or a zero sum
dash_path_effect(intervals, phase) ==
  IF /\ Len(intervals) >= 2
     /\ Len(intervals) % 2 = 0
     /\ \A i \in 1..Len(intervals) : intervals[i] >= 0
     /\ interval_sum(intervals) > 0
    THEN Some([kind |-> "dash", intervals |-> intervals, phase |-> phase])
    ELSE NoValue

\* Paint::set_path_effect, which takes an Option
set_path_effect(paint, effect) ==
  [paint EXCEPT !.path_effect = IF effect = NoValue THEN <<>> ELSE <<effect.val>>]

\* paint_for_stroke that takes the effect for granted
paint_for_stroke_Unchecked(st) ==
  LET paint == set_dye(st, [st.paint EXCEPT !.style = "Stroke"], st.stroke_style)
  IN  IF st.line_dash_list # <<>>
        THEN [paint EXCEPT !.path_effect =
                <<[kind |-> "dash", intervals |-> st.line_dash_list,
                   phase |-> st.line_dash_offset]>>]
        ELSE paint

paint_for_stroke(st) ==
  LET paint == set_dye(st, [st.paint EXCEPT !.style = "Stroke"], st.stroke_style)
  IN  IF st.line_dash_list # <<>>
        THEN set_path_effect(paint,
                             dash_path_effect(st.line_dash_list, st.line_dash_offset))
        ELSE paint

is_zero(offset) == offset[1] = 0 /\ offset[2] = 0

\* image_filters::drop_shadow_only, which may hand back no filter (made = FALSE)
drop_shadow_only(offset, sigma, color, made) ==
  IF made
    THEN [kind |-> "drop_shadow_only", offset |-> offset, sigma |-> <<sigma, sigma>>,
          color |-> color]
    ELSE NoValue

\* the shadow test with the alpha taken before global_alpha is applied
paint_for_shadow_Unscaled(st, base_paint, made) ==
  LET shadow_color == color_with_alpha(st, st.shadow_color)
      sigma == st.shadow_blur \div 2
      filter == drop_shadow_only(st.shadow_offset, sigma, shadow_color, made)
  IN  IF st.shadow_color.a > 0 /\ ~(st.shadow_blur = 0 /\ is_zero(st.shadow_offset))
        THEN IF filter # NoValue
               THEN [kind |-> "Some", paint |-> [base_paint EXCEPT !.image_filter = filter]]
               ELSE [kind |-> "Some", paint |-> base_paint]
        ELSE NoValue

paint_for_shadow(st, base_paint, made) ==
  LET shadow_color == color_with_alpha(st, st.shadow_color)
      sigma == st.shadow_blur \div 2
      filter == drop_shadow_only(st.shadow_offset, sigma, shadow_color, made)
  IN  IF shadow_color.a > 0 /\ ~(st.shadow_blur = 0 /\ is_zero(st.shadow_offset))
        THEN IF filter # NoValue
               THEN [kind |-> "Some", paint |-> [base_paint EXCEPT !.image_filter = filter]]
               ELSE [kind |-> "Some", paint |-> base_paint]
        ELSE NoValue

(***************************************************************************)
(* The draw calls the canvas receives.  site names the statement of the     *)
(* operation that issues the call: "shadow" for the call made with the      *)
(* shadow paint, "primary" for the one made with the caller's paint.        *)
(***************************************************************************)
Call(fn, site, geom, paint, matrix) ==
  [fn |-> fn, site |-> site, geom |-> geom, paint |-> paint, ctm |-> matrix]

\* the shadow call, when there is a shadow paint, then the primary call
ShadowThenPrimary(fn, geom, shadow, paint) ==
  (IF shadow # NoValue THEN <<Call(fn, "shadow", geom, shadow.paint, ctm)>> ELSE <<>>)
    \o <<Call(fn, "primary", geom, paint, ctm)>>

\* an operation that changes neither the context nor the canvas's matrix stack
DrawsWith(name, given) ==
  /\ op' = name
  /\ result' = NoValue
  /\ arg' = given
  /\ queue' = queue
  /\ matched' = NoValue
  /\ UNCHANGED <<surface, path, state_stack, state, ctm, mc_stack, net, ignored, saved>>

Draws(name) == DrawsWith(name, NoValue)

\* the paints the binding passes to draw_path, draw_rect and draw_text
CallerPaints == {paint_for_fill(state), paint_for_stroke(state)}

Rects == {[left |-> 0, top |-> 0, width |-> 4, height |-> 4],
          [left |-> 7, top |-> 7, width |-> 2, height |-> 2]}
OneRect == {[left |-> 7, top |-> 7, width |-> 2, height |-> 2]}

\* draw_path that paints the shape before its shadow
draw_path_PrimaryFirst(paint, made) ==
  LET shadow == paint_for_shadow(state, paint, made)
  IN  /\ calls' = IF surface = "Some"
                    THEN <<Call("draw_path", "primary", path, paint, ctm)>>
                           \o (IF shadow # NoValue
                                 THEN <<Call("draw_path", "shadow", path, shadow.paint, ctm)>>
                                 ELSE <<>>)
                    ELSE <<>>
      /\ outcome' = "ok"
      /\ Draws("draw_path")

draw_path(paint, made) ==
  LET shadow == paint_for_shadow(state, paint, made)
  IN  /\ calls' = IF surface = "Some"
                    THEN ShadowThenPrimary("draw_path", path, shadow, paint)
                    ELSE <<>>
      /\ outcome' = "ok"
      /\ Draws("draw_path")

DrawPath(mades) == \E paint \in CallerPaints, made \in mades : draw_path(paint, made)

clip_path(given, rule) ==
  LET clip == [path |-> IF given # NoValue THEN given.path ELSE path, fill_type |-> rule]
  IN  /\ calls' = IF surface = "Some"
                    THEN <<Call("clip_path", "primary", clip,
                                [op |-> "Intersect", do_aa |-> TRUE], ctm)>>
                    ELSE <<>>
      /\ outcome' = "ok"
      /\ Draws("clip_path")

ClipPath ==
  \E given \in {NoValue, [kind |-> "Some", path |-> 1]}, rule \in {"Winding", "EvenOdd"} :
    clip_path(given, rule)

draw_rect(rect, paint, made) ==
  LET shadow == paint_for_shadow(state, paint, made)
  IN  /\ calls' = IF surface = "Some"
                    THEN ShadowThenPrimary("draw_rect", rect, shadow, paint)
                    ELSE <<>>
      /\ outcome' = "ok"
      /\ Draws("draw_rect")

DrawRect(rects, mades) ==
  \E rect \in rects, paint \in CallerPaints, made \in mades : draw_rect(rect, paint, made)

\* clear_rect that starts from the fill paint of the context
clear_rect_Styled(rect) ==
  LET paint == [paint_for_fill(state) EXCEPT !.blend_mode = "Clear"]
  IN  /\ calls' = IF surface = "Some"
                    THEN <<Call("draw_rect", "primary", rect, paint, ctm)>>
                    ELSE <<>>
      /\ outcome' = "ok"
      /\ DrawsWith("clear_rect", [rect |-> rect])

clear_rect(rect) ==
  LET paint == [DefaultPaint EXCEPT !.style = "Fill", !.blend_mode = "Clear"]
  IN  /\ calls' = IF surface = "Some"
                    THEN <<Call("draw_rect", "primary", rect, paint, ctm)>>
                    ELSE <<>>
      /\ outcome' = "ok"
      /\ DrawsWith("clear_rect", [rect |-> rect])

ClearRect(rects) == \E rect \in rects : clear_rect(rect)

(***************************************************************************)
(* Images.  image_filters::image and Image::new_with_filter belong to Skia  *)
(* and may each return nothing; the operation takes their answers as given. *)
(***************************************************************************)
Images == {NoValue, Some("img")}
Filtered == {NoValue, Some(<<1, 1>>)}              \* new_with_filter: the offset dxdy
SrcRect == [left |-> 0, top |-> 0, width |-> 4, height |-> 4]

from_size(rect) == [left |-> 0, top |-> 0, width |-> rect.width, height |-> rect.height]

\* draw_image that draws the shadow before it knows whether the image can be drawn
draw_image_EarlyShadow(img, src_rect, dst_rect, filter_made, filtered, made) ==
  LET paint == [state.paint EXCEPT !.style = "Fill",
                                   !.color = color_with_alpha(state, BLACK)]
      shadow == paint_for_shadow(state, paint, made)
      resize == from_size(dst_rect)
      image == [image |-> img, src |-> src_rect, dst |-> resize,
                quality |-> paint.filter_quality]
      origin0 == <<dst_rect.left, dst_rect.top>>
      early == IF surface = "Some" /\ img # NoValue /\ shadow # NoValue
                 THEN <<Call("draw_image", "shadow", [image |-> image, origin |-> origin0],
                             shadow.paint, ctm)>>
                 ELSE <<>>
  IN  /\ calls' = IF img # NoValue /\ filter_made /\ filtered # NoValue /\ surface = "Some"
                    THEN LET origin == <<origin0[1] + filtered.val[1],
                                         origin0[2] + filtered.val[2]>>
                         IN  early \o <<Call("draw_image", "primary",
                                             [image |-> image, origin |-> origin], paint, ctm)>>
                    ELSE early
      /\ outcome' = "ok"
      /\ DrawsWith("draw_image",
                   [img |-> img, dst_rect |-> dst_rect, filter_made |-> filter_made,
                    filtered |-> filtered])

draw_image(img, src_rect, dst_rect, filter_made, filtered, made) ==
  LET paint == [state.paint EXCEPT !.style = "Fill",
                                   !.color = color_with_alpha(state, BLACK)]
      shadow == paint_for_shadow(state, paint, made)
      resize == from_size(dst_rect)
      image == [image |-> img, src |-> src_rect, dst |-> resize,
                quality |-> paint.filter_quality]
      origin0 == <<dst_rect.left, dst_rect.top>>
  IN  /\ calls' = IF img # NoValue /\ filter_made /\ filtered # NoValue /\ surface = "Some"
                    THEN LET origin == <<origin0[1] + filtered.val[1],
                                         origin0[2] + filtered.val[2]>>
                         IN  ShadowThenPrimary("draw_image",
                                               [image |-> image, origin |-> origin],
                                               shadow, paint)
                    ELSE <<>>
      /\ outcome' = "ok"
      /\ DrawsWith("draw_image",
                   [img |-> img, dst_rect |-> dst_rect, filter_made |-> filter_made,
                    filtered |-> filtered])

DrawImage(rects, mades) ==
  \E img \in Images, dst_rect \in rects, filter_made \in BOOLEAN, filtered \in Filtered,
     made \in mades :
    draw_image(img, SrcRect, dst_rect, filter_made, filtered, made)

\* what blit_image leaves behind, whatever it does to the canvas
Blits(img) ==
  /\ op' = "blit_image"
  /\ outcome' = "ok"
  /\ result' = NoValue
  /\ arg' = [img |-> img]
  /\ queue' = queue
  /\ matched' = NoValue
  /\ UNCHANGED <<surface, path, state_stack, state, net, ignored, saved>>

BlitGeom(img, src_rect, dst_rect) ==
  [image |-> img, src |-> src_rect, constraint |-> "Strict", dst |-> dst_rect]

\* blit_image that forgets canvas.restore()
blit_image_NoRestore(img, src_rect, dst_rect) ==
  LET paint == [DefaultPaint EXCEPT !.style = "Fill"]
      saved_mc == Append(mc_stack, ctm)
      reset == Identity
  IN  /\ IF img # NoValue /\ surface = "Some"
           THEN /\ calls' = <<CanvasCall("save", ctm),
                              CanvasCall("reset_matrix", reset),
                              Call("draw_image_rect", "primary",
                                   BlitGeom(img, src_rect, dst_rect), paint, reset)>>
                /\ ctm' = reset
                /\ mc_stack' = saved_mc
           ELSE /\ calls' = <<>>
                /\ UNCHANGED <<ctm, mc_stack>>
      /\ Blits(img)

blit_image(img, src_rect, dst_rect) ==
  LET paint == [DefaultPaint EXCEPT !.style = "Fill"]
      saved_mc == Append(mc_stack, ctm)         \* canvas.save()
      reset == Identity                         \* canvas.reset_matrix()
  IN  /\ IF img # NoValue /\ surface = "Some"
           THEN /\ calls' = <<CanvasCall("save", ctm),
                              CanvasCall("reset_matrix", reset),
                              Call("draw_image_rect", "primary",
                                   BlitGeom(img, src_rect, dst_rect), paint, reset),
                              CanvasCall("restore", Last(saved_mc))>>
                /\ ctm' = Last(saved_mc)        \* canvas.restore()
                /\ mc_stack' = ButLast(saved_mc)
           ELSE /\ calls' = <<>>
                /\ UNCHANGED <<ctm, mc_stack>>
      /\ Blits(img)

BlitImage(rects) == \E img \in Images, dst_rect \in rects : blit_image(img, SrcRect, dst_rect)

(***************************************************************************)
(* Text.  The font metrics, the baseline offset and the alignment factor    *)
(* come from Skia and from the crate's utils.                               *)
(***************************************************************************)
GALLEY == 100000

font_metrics(char_style) ==
  [ascent |-> -char_style.font_size,
   descent |-> char_style.font_size \div 5,
   cap_height |-> (7 * char_style.font_size) \div 10]

get_baseline_offset(metrics, mode) ==
  CASE mode = "Alphabetic" -> 0
    [] mode = "Top" -> -metrics.ascent
    [] mode = "Hanging" -> metrics.cap_height
    [] mode = "Middle" -> metrics.cap_height \div 2
    [] mode = "Ideographic" -> -metrics.descent
    [] mode = "Bottom" -> -metrics.descent

\* in halves: 0 for start/left, 1 for center, 2 for end/right
get_alignment_factor(graf_style) ==
  CASE graf_style.text_align \in {"Start", "Left"} -> 0
    [] graf_style.text_align = "Center" -> 1
    [] graf_style.text_align \in {"End", "Right"} -> 2

alphabetic_baseline(paragraph) == -font_metrics(paragraph.char_style.style).ascent

typeset_text(st, text, paint) ==
  LET shadow_color == color_with_alpha(st, st.shadow_color)
      sigma == st.shadow_blur \div 2
      shadows == IF shadow_color.a > 0
                      /\ ~(st.shadow_blur = 0 /\ is_zero(st.shadow_offset))
                   THEN <<[color |-> shadow_color, offset |-> st.shadow_offset,
                           sigma |-> sigma]>>
                   ELSE <<>>
  IN  [text |-> text,
       char_style |-> [style |-> st.char_style, foreground |-> paint, shadows |-> shadows],
       graf_style |-> st.graf_style,
       width |-> GALLEY]

Texts == {"", "a"}

draw_text(text, x, y, paint) ==
  LET paragraph == typeset_text(state, text, paint)
      metrics == font_metrics(state.char_style)
      offset == get_baseline_offset(metrics, state.text_baseline)
      point == <<x + (GALLEY * get_alignment_factor(state.graf_style)) \div 2,
                 y + offset - alphabetic_baseline(paragraph)>>
  IN  /\ IF surface = "Some"
           THEN /\ calls' = <<Call("paragraph_paint", "primary", point, paragraph, ctm)>>
                /\ outcome' = "ok"
           ELSE /\ calls' = <<>>              \* self.surface.as_mut().unwrap()
                /\ outcome' = "panic"
      /\ Draws("draw_text")

DrawText == \E text \in Texts, paint \in CallerPaints : draw_text(text, 3, 4, paint)

(***************************************************************************)
(* Setters of the shadow parameters and of global_alpha (the binding).      *)
(***************************************************************************)
SetShadowColor(colors) ==
  /\ \E c \in colors \ {state.shadow_color} : state' = [state EXCEPT !.shadow_color = c]
  /\ Sets("set_shadow_color")

SetShadowBlur(blurs) ==
  /\ \E b \in blurs \ {state.shadow_blur} : state' = [state EXCEPT !.shadow_blur = b]
  /\ Sets("set_shadow_blur")

SetShadowOffset(offsets) ==
  /\ \E o \in offsets \ {state.shadow_offset} : state' = [state EXCEPT !.shadow_offset = o]
  /\ Sets("set_shadow_offset")

SetGlobalAlpha(alphas) ==
  /\ \E g \in alphas \ {state.global_alpha} : state' = [state EXCEPT !.global_alpha = g]
  /\ Sets("set_global_alpha")

Offsets == {<<0, 0>>, <<5, 5>>}

(***************************************************************************)
(* The surface specification: every drawing operation, before and after a   *)
(* surface is attached, with save/restore and a shadow that comes and goes. *)
(* One rectangle is drawn and drop_shadow_only always makes its filter.     *)
(***************************************************************************)
NextSurface ==
  \/ AttachSurface
  \/ Len(state_stack) < MaxDrawDepth /\ Push
  \/ state_stack # <<>> /\ Pop
  \/ SetShadowColor({TRANSPARENT, RED})
  \/ SetShadowOffset(Offsets)
  \/ PathOp
  \/ DrawPath({TRUE})
  \/ ClipPath
  \/ DrawRect(OneRect, {TRUE})
  \/ ClearRect(OneRect)
  \/ DrawImage(OneRect, {TRUE})
  \/ BlitImage(OneRect)
  \/ DrawText

SpecSurface == Init /\ [][NextSurface]_vars

(***************************************************************************)
(* The shadow specification: the drawing operations that cast a shadow,     *)
(* over every combination of the shadow parameters and global_alpha.        *)
(***************************************************************************)
NextShadow ==
  \/ AttachSurface
  \/ SetShadowColor({TRANSPARENT, FAINT, RED})
  \/ SetShadowBlur({0, 2})
  \/ SetShadowOffset(Offsets)
  \/ SetGlobalAlpha({0, 4, AlphaOne})
  \/ DrawPath(BOOLEAN)
  \/ DrawRect(Rects, BOOLEAN)
  \/ DrawImage(Rects, BOOLEAN)
  \/ DrawText

SpecShadow == Init /\ [][NextShadow]_vars

(***************************************************************************)
(* The paint specification: the fill and stroke paints resolved under       *)
(* every dye and global_alpha.                                              *)
(***************************************************************************)
Resolves(name, paint) ==
  /\ op' = name
  /\ outcome' = "ok"
  /\ result' = paint
  /\ arg' = [prior |-> IF op = name THEN result ELSE NoValue]
  /\ calls' = <<>>
  /\ matched' = NoValue
  /\ UNCHANGED <<surface, path, state_stack, state, ctm, mc_stack, queue, net, ignored,
                 saved>>

\* paint_for_fill that stores the colour it resolved back into the fill dye
PaintForFill_Bakes ==
  /\ op' = "paint_for_fill"
  /\ outcome' = "ok"
  /\ result' = paint_for_fill(state)
  /\ arg' = [prior |-> IF op = "paint_for_fill" THEN result ELSE NoValue]
  /\ state' = IF state.fill_style.kind = "Color"
                THEN [state EXCEPT !.fill_style =
                        DyeColor(color_with_alpha(state, state.fill_style.color))]
                ELSE state
  /\ calls' = <<>>
  /\ matched' = NoValue
  /\ UNCHANGED <<surface, path, state_stack, ctm, mc_stack, queue, net, ignored, saved>>

PaintForFill == Resolves("paint_for_fill", paint_for_fill(state))

PaintForStroke == Resolves("paint_for_stroke", paint_for_stroke(state))

SetStrokeStyle(dyes) ==
  /\ \E d \in dyes \ {state.stroke_style} : state' = [state EXCEPT !.stroke_style = d]
  /\ Sets("set_stroke_style")

SetLineDash(lists) ==
  /\ \E l \in lists \ {state.line_dash_list} : state' = [state EXCEPT !.line_dash_list = l]
  /\ Sets("set_line_dash")

SetLineDashOffset(phases) ==
  /\ \E f \in phases \ {state.line_dash_offset} :
       state' = [state EXCEPT !.line_dash_offset = f]
  /\ Sets("set_line_dash_offset")

PaintDyes == {DyeColor(BLACK), DyeColor(FAINT), DyeGradient("g1"), DyePattern("p1")}

DashLists == {<<>>, <<2, 2>>, <<0, 0>>}

DashOffsets == {0, 1}

NextPaint ==
  \/ SetFillStyle(PaintDyes)
  \/ SetStrokeStyle(PaintDyes)
  \/ SetGlobalAlpha({0, 4, AlphaOne})
  \/ SetLineDash(DashLists)
  \/ SetLineDashOffset(DashOffsets)
  \/ PaintForFill
  \/ PaintForStroke

SpecPaint == Init /\ [][NextPaint]_vars

(***************************************************************************)
(* Fonts.  FontCollection::find_typefaces belongs to Skia: the number of    *)
(* typefaces it finds for a FontSpec is taken as given.                     *)
(***************************************************************************)
FontSpecs ==
  {[canonical |-> "bold 12px serif", style |-> "bold", families |-> <<"serif">>,
    size |-> 12, variant |-> "small-caps", features |-> <<<<"smcp", 1>>>>],
   [canonical |-> "italic 20px Helvetica, sans-serif", style |-> "italic",
    families |-> <<"Helvetica", "sans-serif">>, size |-> 20, variant |-> "normal",
    features |-> <<>>]}

Found == {0, 2}

RECURSIVE add_font_features(_, _)
add_font_features(char_style, features) ==
  IF features = <<>>
    THEN char_style
    ELSE add_font_features(
           [char_style EXCEPT !.font_features = Append(@, Head(features))],
           Tail(features))

set_font_variant(st, variant, features) ==
  LET named == [st EXCEPT !.font_variant = variant]
      reset == [named.char_style EXCEPT !.font_features = <<>>]
  IN  [named EXCEPT !.char_style = add_font_features(reset, features)]

FontCalled(name, given) ==
  /\ op' = name
  /\ outcome' = "ok"
  /\ result' = NoValue
  /\ arg' = given
  /\ queue' = queue
  /\ calls' = <<>>
  /\ matched' = NoValue
  /\ UNCHANGED <<surface, path, state_stack, ctm, mc_stack, net, ignored, saved>>

\* choose_font that stores the font string before it looks the font up
choose_font_Partial(spec, faces) ==
  LET named == [state EXCEPT !.font = spec.canonical]
      styled == [named EXCEPT !.char_style.font_style = spec.style,
                              !.char_style.font_families = spec.families,
                              !.char_style.font_size = spec.size]
  IN  /\ state' = IF faces # 0
                    THEN set_font_variant(styled, spec.variant, spec.features)
                    ELSE named
      /\ FontCalled("choose_font", [spec |-> spec, faces |-> faces])

choose_font(spec, faces) ==
  LET styled == [state EXCEPT !.font = spec.canonical,
                              !.char_style.font_style = spec.style,
                              !.char_style.font_families = spec.families,
                              !.char_style.font_size = spec.size]
  IN  /\ state' = IF faces # 0
                    THEN set_font_variant(styled, spec.variant, spec.features)
                    ELSE state
      /\ FontCalled("choose_font", [spec |-> spec, faces |-> faces])

ChooseFont == \E spec \in FontSpecs, faces \in Found : choose_font(spec, faces)

SetFontVariant ==
  \E v \in {<<"normal", <<>>>>, <<"small-caps", <<<<"smcp", 1>>>>>>} :
    /\ state' = set_font_variant(state, v[1], v[2])
    /\ FontCalled("set_font_variant", NoValue)

NextFont ==
  \/ ChooseFont
  \/ SetFontVariant
  \/ Len(state_stack) < MaxDrawDepth /\ Push
  \/ state_stack # <<>> /\ Pop

SpecFont == Init /\ [][NextFont]_vars

(***************************************************************************)
(* Transforms.  Matrix::invert fails on a matrix with a zero scale; a       *)
(* mapped point is [x, y, den], the point (x / den, y / den).               *)
(***************************************************************************)
Matrices ==
  {Identity,
   [sx |-> 2, sy |-> 4, tx |-> 3, ty |-> 1, den |-> 1],     \* a scale and a translation
   [sx |-> 0, sy |-> 1, tx |-> 0, ty |-> 0, den |-> 1]}     \* a zero scale

Points == {<<0, 0>>, <<5, 3>>}

\* Context2D::ctm
total_matrix == IF surface = "Some" THEN ctm ELSE Identity

invert(m) ==
  IF m.sx * m.sy = 0
    THEN NoValue
    ELSE LET sign == IF m.sx * m.sy > 0 THEN 1 ELSE -1
         IN  Some([sx |-> sign * m.den * m.sy, tx |-> -sign * m.tx * m.sy,
                   sy |-> sign * m.den * m.sx, ty |-> -sign * m.ty * m.sx,
                   den |-> sign * m.sx * m.sy])

map_point(m, x, y) == [x |-> m.sx * x + m.tx, y |-> m.sy * y + m.ty, den |-> m.den]

\* in_local_coordinates that maps through the matrix instead of its inverse
in_local_coordinates_Forward(x, y) ==
  IF invert(total_matrix) # NoValue
    THEN map_point(total_matrix, x, y)
    ELSE [x |-> x, y |-> y, den |-> 1]

in_local_coordinates(x, y) ==
  LET inverse == invert(total_matrix)
  IN  IF inverse # NoValue
        THEN map_point(inverse.val, x, y)
        ELSE [x |-> x, y |-> y, den |-> 1]

InLocalCoordinates ==
  \E p \in Points :
    /\ op' = "in_local_coordinates"
    /\ outcome' = "ok"
    /\ result' = in_local_coordinates(p[1], p[2])
    /\ arg' = [x |-> p[1], y |-> p[2]]
    /\ calls' = <<>>
    /\ matched' = NoValue
    /\ UNCHANGED <<surface, path, state_stack, state, ctm, mc_stack, queue, net, ignored,
                   saved>>

\* with_matrix(f), for the f that leaves the matrix m behind
with_matrix(m) ==
  /\ IF surface = "Some"
       THEN ctm' = m /\ calls' = <<CanvasCall("set_matrix", m)>>
       ELSE ctm' = ctm /\ calls' = <<>>
  /\ Returns("with_matrix", NoValue)
  /\ matched' = NoValue
  /\ UNCHANGED <<surface, path, state_stack, state, mc_stack, net, ignored, saved>>

WithMatrix == \E m \in Matrices \ {total_matrix} : with_matrix(m)

(***************************************************************************)
(* The matrix specification: transforms, save/restore and blits, before     *)
(* and after a surface is attached.                                         *)
(***************************************************************************)
NextMatrix ==
  \/ AttachSurface
  \/ WithMatrix
  \/ Len(state_stack) < MaxDrawDepth /\ Push
  \/ PopAllowed /\ Pop
  \/ SetShadowColor({TRANSPARENT, RED})
  \/ BlitImage(OneRect)
  \/ InLocalCoordinates

SpecMatrix == Init /\ [][NextMatrix]_vars

(***************************************************************************)
(* The clearing specification: clear_rect under every style of the context. *)
(***************************************************************************)
SetCompositeOperation(modes) ==
  /\ \E b \in modes \ {state.global_composite_operation} :
       state' = [state EXCEPT !.global_composite_operation = b, !.paint.blend_mode = b]
  /\ Sets("set_global_composite_operation")

BlendModes == {"SrcOver", "Multiply"}

ClearDyes == {DyeColor(BLACK), DyeGradient("g1")}

NextClear ==
  \/ AttachSurface
  \/ SetFillStyle(ClearDyes)
  \/ SetStrokeStyle(ClearDyes)
  \/ SetGlobalAlpha({4, AlphaOne})
  \/ SetCompositeOperation(BlendModes)
  \/ SetShadowColor({TRANSPARENT, RED})
  \/ SetShadowOffset(Offsets)
  \/ WithMatrix
  \/ ClearRect(Rects)

SpecClear == Init /\ [][NextClear]_vars

(***************************************************************************)
(* Text measurement.  Paragraph::get_line_metrics belongs to Skia: the      *)
(* first line it reports for the paragraph typeset with the fill paint, or   *)
(* none, is taken as given.  Lengths are whole numbers here; the narrowing   *)
(* of each value to f32 is not modelled.                                     *)
(***************************************************************************)
Baselines == {"Top", "Hanging", "Middle", "Alphabetic", "Ideographic", "Bottom"}

Lines == {NoValue,
          Some([width |-> 7, left |-> 1, ascent |-> 9, descent |-> 2]),
          Some([width |-> 30, left |-> 0, ascent |-> 18, descent |-> 4])}

FontValues(st) ==
  LET metrics == font_metrics(st.char_style)
      offset == get_baseline_offset(metrics, st.text_baseline)
      hang == offset - get_baseline_offset(metrics, "Hanging")
      alph == offset - get_baseline_offset(metrics, "Alphabetic")
      ideo == offset - get_baseline_offset(metrics, "Ideographic")
      font_ascent == metrics.ascent + offset
      font_descent == metrics.descent + offset
      em == st.char_style.font_size
  IN  <<-font_ascent, font_descent, em - font_descent, font_descent, hang, alph, ideo>>

\* measure_text that reports nothing at all for a text without a line
measure_text_Fontless(st, text, line) ==
  LET offset == get_baseline_offset(font_metrics(st.char_style), st.text_baseline)
  IN  IF line # NoValue
        THEN <<line.val.width, line.val.left, line.val.width - line.val.left,
               line.val.ascent - offset, line.val.descent + offset>> \o FontValues(st)
        ELSE <<0, 0, 0, 0, 0, 0, 0, 0, 0, 0, 0, 0>>

measure_text(st, text, line) ==
  LET offset == get_baseline_offset(font_metrics(st.char_style), st.text_baseline)
  IN  IF line # NoValue
        THEN <<line.val.width, line.val.left, line.val.width - line.val.left,
               line.val.ascent - offset, line.val.descent + offset>> \o FontValues(st)
        ELSE <<0, 0, 0, 0, 0>> \o FontValues(st)

MeasureText ==
  \E text \in Texts, line \in Lines :
    /\ op' = "measure_text"
    /\ outcome' = "ok"
    /\ result' = measure_text(state, text, line)
    /\ arg' = [text |-> text, line |-> line]
    /\ calls' = <<>>
    /\ matched' = NoValue
    /\ UNCHANGED <<surface, path, state_stack, state, ctm, mc_stack, queue, net, ignored,
                   saved>>

SetTextBaseline(modes) ==
  /\ \E b \in modes \ {state.text_baseline} : state' = [state EXCEPT !.text_baseline = b]
  /\ Sets("set_text_baseline")

NextText ==
  \/ ChooseFont
  \/ SetTextBaseline(Baselines)
  \/ MeasureText

SpecText == Init /\ [][NextText]_vars

(***************************************************************************)
(* The ref queue: a JavaScript array kept on the context object, indexed by *)
(* the depth of the state stack.  The binding stashes the gradient object   *)
(* whose shader it stores in fill_style, so the object live in State is the  *)
(* one fill_style names.  A hole of the array reads as undefined.            *)
(***************************************************************************)
Undefined == "undefined"

Refs == {"g1", "g2"}

\* the queue is NoValue until it is created, and Some(array) from then on
stash_ref(q, depth, obj) ==
  LET array == IF q = NoValue THEN <<>> ELSE q.val              \* created lazily
      resized == [i \in 1..(depth + 1) |->
                    IF i <= Len(array) THEN array[i] ELSE Undefined]
  IN  Some([resized EXCEPT ![depth + 1] = obj])

fetch_ref(q, depth) ==
  LET len == Len(q.val)
      idx == IF depth <= len - 1 THEN depth ELSE len - 1
  IN  IF idx >= 0 THEN q.val[idx + 1] ELSE Undefined

StashRef ==
  \E obj \in Refs :
    /\ queue' = stash_ref(queue, Len(state_stack), obj)
    /\ state' = [state EXCEPT !.fill_style = DyeGradient(obj)]
    /\ op' = "stash_ref"
    /\ outcome' = "ok"
    /\ result' = Undefined
    /\ arg' = [obj |-> obj]
    /\ calls' = <<>>
    /\ matched' = NoValue
    /\ UNCHANGED <<surface, path, state_stack, ctm, mc_stack, net, ignored, saved>>

FetchRef ==
  /\ IF queue # NoValue
       THEN outcome' = "ok" /\ result' = fetch_ref(queue, Len(state_stack))
       ELSE outcome' = "throw" /\ result' = NoValue             \* or_throw
  /\ op' = "fetch_ref"
  /\ arg' = NoValue
  /\ calls' = <<>>
  /\ matched' = NoValue
  /\ UNCHANGED <<surface, path, state_stack, state, ctm, mc_stack, queue, net, ignored,
                 saved>>

NextRefs ==
  \/ Len(state_stack) < MaxDepth /\ Push
  \/ PopAllowed /\ Pop
  \/ StashRef
  \/ FetchRef

SpecRefs == Init /\ [][NextRefs]_vars

(***************************************************************************)
(* Claims about the state stack, checked under SpecStack.                   *)
(***************************************************************************)
Max(a, b) == IF a >= b THEN a ELSE b

C3_EmptyPopKeepsState ==
  [][(op' = "pop" /\ state_stack = <<>>)
       => (outcome' = "ok" /\ state' = state /\ state_stack' = <<>>)]_vars

C3_Witness ==
  /\ op = "pop" /\ outcome = "ok"
  /\ matched = NoValue /\ ignored > 0
  /\ state_stack = <<>>
  /\ state # NewState

\* C4: the State right after a restore() equals the State right before the
\* save() it matches, and the States on the stack are the States that were
\* current at the outstanding save() calls, whatever was set since.
C4_LifoSnapshots ==
  /\ (op = "pop" /\ matched # NoValue) => state = matched.state
  /\ Len(state_stack) = Len(saved)
  /\ \A i \in 1..Len(saved) : state_stack[i] = saved[i].state

C4_Witness ==
  /\ op = "pop" /\ matched # NoValue
  /\ matched.live # matched.state
  /\ state = matched.state
  /\ state_stack # <<>>
  /\ Last(state_stack) # state

\* C5: save() and restore() leave the Path Buffer as it is.
C5_PathNotInSnapshot == [][op' \in {"push", "pop"} => path' = path]_vars

C5_Witness ==
  /\ op = "pop" /\ matched # NoValue
  /\ matched.path # path

(***************************************************************************)
(* Claims about drawing, checked under SpecSurface and SpecShadow.          *)
(***************************************************************************)
DrawOps == {"draw_path", "draw_rect", "clear_rect", "clip_path", "draw_image",
            "blit_image", "draw_text"}

ShadowOps == {"draw_path", "draw_rect", "draw_image"}

\* C1: with no surface attached every drawing operation returns normally and
\* issues no call to the backend.
C1_NoSurfaceNoOp ==
  (surface = "None" /\ op \in DrawOps) => (outcome = "ok" /\ calls = <<>>)

\* the rule of the shadow compositor: the shadow colour's alpha, once scaled by
\* global_alpha, is above zero, and blur and offset are not both zero
ShadowRule ==
  /\ color_with_alpha(state, state.shadow_color).a > 0
  /\ ~(state.shadow_blur = 0 /\ state.shadow_offset = <<0, 0>>)

Unfiltered(paint) == [paint EXCEPT !.image_filter = NoValue]

\* C6: in draw_path, draw_rect and draw_image, when a shadow paint is produced
\* the canvas receives the shadow call first and the primary call second, with
\* the same geometry and nothing in between; no primary call precedes a shadow call.
C6_ShadowBeforePrimary ==
  op \in ShadowOps =>
    /\ (ShadowRule /\ calls # <<>>) =>
         /\ Len(calls) = 2
         /\ calls[1].site = "shadow" /\ calls[2].site = "primary"
         /\ calls[1].fn = calls[2].fn
         /\ calls[1].geom = calls[2].geom
         /\ Unfiltered(calls[1].paint) = calls[2].paint
    /\ \A i, j \in 1..Len(calls) :
         (calls[i].site = "primary" /\ calls[j].site = "shadow") => j < i

C6_Witness ==
  /\ op = "draw_image" /\ Len(calls) = 2
  /\ calls[1].site = "shadow"
  /\ calls[1].paint.image_filter # NoValue
  /\ calls[2].paint.image_filter = NoValue

\* C7: a shadow is produced exactly when the shadow rule holds, in draw_path,
\* draw_rect and draw_image (a shadow call) and in typeset_text (a text shadow).
C7_ShadowIffRule ==
  /\ (op \in ShadowOps /\ calls # <<>>) =>
       ((\E i \in 1..Len(calls) : calls[i].site = "shadow") <=> ShadowRule)
  /\ (op = "draw_text" /\ calls # <<>>) =>
       ((calls[1].paint.char_style.shadows # <<>>) <=> ShadowRule)
  /\ (state.shadow_color.a = 0 /\ state.shadow_blur = 0 /\ state.shadow_offset = <<0, 0>>) =>
       \A i \in 1..Len(calls) :
         /\ calls[i].site # "shadow"
         /\ op = "draw_text" => calls[i].paint.char_style.shadows = <<>>

\* a shadow colour that is not transparent, with an offset, suppressed because
\* global_alpha scales its alpha to zero
C7_Witness ==
  /\ op = "draw_rect" /\ Len(calls) = 1
  /\ state.shadow_color.a > 0
  /\ state.global_alpha > 0
  /\ state.shadow_offset # <<0, 0>>

\* C10: draw_image changes neither State, the state stack nor the path and
\* returns normally; it issues no call when the image is absent, the filter or
\* the filtered image cannot be made or no surface is attached, and otherwise
\* the shadow call, if the shadow rule holds, followed by one primary call.
C10_DrawImageAllOrNothing ==
  [][op' = "draw_image" =>
       /\ state' = state /\ state_stack' = state_stack /\ path' = path
       /\ outcome' = "ok"
       /\ IF arg'.img = NoValue \/ ~arg'.filter_made \/ arg'.filtered = NoValue
              \/ surface = "None"
            THEN calls' = <<>>
            ELSE /\ Len(calls') = (IF ShadowRule THEN 2 ELSE 1)
                 /\ calls'[Len(calls')].site = "primary"
                 /\ Len(calls') = 2 => calls'[1].site = "shadow"
                 /\ \A i \in 1..Len(calls') : calls'[i].fn = "draw_image"]_vars

C10_Witness ==
  /\ op = "draw_image" /\ calls = <<>>
  /\ surface = "Some" /\ arg.img # NoValue /\ arg.filter_made /\ arg.filtered = NoValue
  /\ ShadowRule
  /\ state_stack # <<>> /\ path # 0

(***************************************************************************)
(* Claims about paint resolution, checked under SpecPaint.                  *)
(***************************************************************************)
ActiveDye == IF op = "paint_for_fill" THEN state.fill_style ELSE state.stroke_style

\* C8: the paint returned by paint_for_fill and paint_for_stroke carries an
\* alpha scaled by global_alpha whatever the dye: the dye's colour for a Color,
\* the base paint's colour for a Gradient or a Pattern.
C8_AlphaAppliedToEveryDye ==
  op \in {"paint_for_fill", "paint_for_stroke"} =>
    result.color.a =
      color_with_alpha(state, IF ActiveDye.kind = "Color" THEN ActiveDye.color
                                                          ELSE state.paint.color).a

NoEffect == <<>>

\* C12: paint_for_stroke installs a dash path effect if and only if
\* line_dash_list is non-empty at the call, whatever the dash lists before it;
\* paint_for_fill never installs one.
C12_DashIffNonEmpty ==
  /\ op = "paint_for_stroke" =>
       (result.path_effect # NoEffect <=> state.line_dash_list # <<>>)
  /\ op = "paint_for_fill" => result.path_effect = NoEffect

\* C12 as amended: paint_for_stroke carries the dash effect of line_dash_list
\* and line_dash_offset when the list is non-empty and dash_path_effect::new
\* accepts it, and no effect when the list is empty or is rejected, whatever the
\* dash lists before it; paint_for_fill never installs one.
C12_DashIffAccepted ==
  /\ op = "paint_for_stroke" =>
       result.path_effect =
         IF /\ state.line_dash_list # <<>>
            /\ dash_path_effect(state.line_dash_list, state.line_dash_offset) # NoValue
           THEN <<[kind |-> "dash", intervals |-> state.line_dash_list,
                   phase |-> state.line_dash_offset]>>
           ELSE NoEffect
  /\ op = "paint_for_fill" => result.path_effect = NoEffect

C12_Witness ==
  /\ op = "paint_for_stroke"
  /\ state.line_dash_list = <<0, 0>>
  /\ result.path_effect = NoEffect

\* C13: a call of paint_for_fill changes neither State, the state stack nor
\* the path, and returns the paint the call of paint_for_fill right before it
\* returned.
C13_FillResolutionIsPure ==
  [][op' = "paint_for_fill" =>
       /\ state' = state /\ state_stack' = state_stack /\ path' = path
       /\ op = "paint_for_fill" => result' = result]_vars

C13_Witness ==
  /\ op = "paint_for_fill"
  /\ arg.prior # NoValue /\ arg.prior = result
  /\ state.global_alpha = 4
  /\ state.fill_style = DyeColor(FAINT)

(***************************************************************************)
(* Claims about clear_rect, checked under SpecClear.                        *)
(***************************************************************************)
ClearPaint == [DefaultPaint EXCEPT !.style = "Fill", !.blend_mode = "Clear"]

\* C14: whatever the dyes, global_alpha, composite operation and shadow of
\* State, clear_rect on a surface issues one canvas call, the draw of the
\* rectangle with a default fill paint in the Clear blend mode, which is never a
\* shadow draw, and it leaves State unchanged.
C14_ClearIsLiteral ==
  [][op' = "clear_rect" =>
       /\ state' = state
       /\ outcome' = "ok"
       /\ surface = "Some" =>
            calls' = <<Call("draw_rect", "primary", arg'.rect, ClearPaint, ctm)>>
       /\ \A i \in 1..Len(calls') : calls'[i].site # "shadow"]_vars

C14_Witness ==
  /\ op = "clear_rect"
  /\ Len(calls) = 1
  /\ state.fill_style = DyeGradient("g1")
  /\ state.global_alpha = 4
  /\ state.global_composite_operation = "Multiply"
  /\ state.shadow_color = RED /\ state.shadow_offset # <<0, 0>>
  /\ ctm # Identity

(***************************************************************************)
(* Claims about measure_text, checked under SpecText.                       *)
(***************************************************************************)
Measured == [width |-> result[1], left |-> result[2], right |-> result[3],
             ascent |-> result[4], descent |-> result[5],
             font_ascent |-> result[6], font_descent |-> result[7],
             em_ascent |-> result[8], em_descent |-> result[9],
             hanging |-> result[10], alphabetic |-> result[11],
             ideographic |-> result[12]]

LineOf(line) == measure_text(state, arg.text, line)

\* C15: measure_text returns 12 values in the order width, left bearing, right
\* bearing, ascent, descent, font ascent, font descent, em ascent, em descent,
\* hanging, alphabetic and ideographic delta; without line metrics the first
\* five are zero and the last seven are those returned with line metrics for
\* the same font and baseline; under the Alphabetic baseline the alphabetic
\* delta is zero.
C15_MeasureTextVector ==
  op = "measure_text" =>
    LET metrics == font_metrics(state.char_style)
        offset == get_baseline_offset(metrics, state.text_baseline)
    IN  /\ Len(result) = 12
        /\ arg.line # NoValue =>
             /\ Measured.width = arg.line.val.width
             /\ Measured.left = arg.line.val.left
             /\ Measured.right = arg.line.val.width - arg.line.val.left
             /\ Measured.ascent = arg.line.val.ascent - offset
             /\ Measured.descent = arg.line.val.descent + offset
        /\ arg.line = NoValue =>
             \A i \in 1..5 : result[i] = 0
        /\ \A line \in Lines \ {NoValue} :
             \A i \in 6..12 : result[i] = LineOf(line)[i]
        /\ Measured.font_ascent = -(metrics.ascent + offset)
        /\ Measured.font_descent = metrics.descent + offset
        /\ Measured.em_ascent = state.char_style.font_size - Measured.font_descent
        /\ Measured.em_descent = Measured.font_descent
        /\ Measured.hanging = offset - get_baseline_offset(metrics, "Hanging")
        /\ Measured.alphabetic = offset - get_baseline_offset(metrics, "Alphabetic")
        /\ Measured.ideographic = offset - get_baseline_offset(metrics, "Ideographic")
        /\ state.text_baseline = "Alphabetic" => Measured.alphabetic = 0

C15_Witness ==
  /\ op = "measure_text"
  /\ arg.line = NoValue
  /\ state.text_baseline = "Hanging"
  /\ state.char_style.font_size = 20
  /\ Measured.font_ascent # 0 /\ Measured.alphabetic # 0

(***************************************************************************)
(* Claims about fonts, checked under SpecFont.                              *)
(***************************************************************************)
\* C9: choose_font returns normally; when the lookup finds a typeface the font
\* string, style, families, size, variant and features of State are those of the
\* FontSpec and the rest of State is untouched, and when it finds none the whole
\* State is as before.
C9_FontCommitIffFound ==
  [][op' = "choose_font" =>
       /\ outcome' = "ok"
       /\ IF arg'.faces # 0
            THEN /\ state'.font = arg'.spec.canonical
                 /\ state'.font_variant = arg'.spec.variant
                 /\ state'.char_style =
                      [font_style |-> arg'.spec.style,
                       font_families |-> arg'.spec.families,
                       font_size |-> arg'.spec.size,
                       font_features |-> arg'.spec.features]
                 /\ [state' EXCEPT !.font = state.font,
                                   !.font_variant = state.font_variant,
                                   !.char_style = state.char_style] = state
            ELSE state' = state]_vars

\* a lookup that found nothing, after one that had set another font
C9_Witness ==
  /\ op = "choose_font" /\ arg.faces = 0
  /\ state.font # NewState.font
  /\ state.font # arg.spec.canonical

(***************************************************************************)
(* Claims about transforms and the canvas's save stack, checked under       *)
(* SpecMatrix.                                                              *)
(***************************************************************************)
BlitPaint == [DefaultPaint EXCEPT !.style = "Fill"]

\* C11: blit_image issues its copy under the identity matrix, with a default
\* fill paint that owes nothing to State, and leaves the canvas's matrix and
\* save stack, State and the state stack as they were.
C11_BlitUnderIdentity ==
  [][op' = "blit_image" =>
       /\ ctm' = ctm /\ mc_stack' = mc_stack
       /\ state' = state /\ state_stack' = state_stack
       /\ \A i \in 1..Len(calls') :
            calls'[i].site = "primary" =>
              /\ calls'[i].fn = "draw_image_rect"
              /\ calls'[i].ctm = Identity
              /\ calls'[i].paint = BlitPaint
       /\ (arg'.img # NoValue /\ surface = "Some") =>
            Cardinality({i \in 1..Len(calls') : calls'[i].site = "primary"}) = 1]_vars

C11_Witness ==
  /\ op = "blit_image"
  /\ \E i \in 1..Len(calls) : calls[i].site = "primary"
  /\ ctm # Identity
  /\ mc_stack # <<>> /\ Last(mc_stack) # ctm
  /\ state # NewState

\* C16: in_local_coordinates returns the point whose image under the current
\* matrix is (x, y) when the matrix can be inverted, and (x, y) itself when it
\* cannot or when no surface is attached; it returns normally.
C16_LocalCoordinates ==
  op = "in_local_coordinates" =>
    /\ outcome = "ok"
    /\ result.den # 0
    /\ IF surface = "Some" /\ ctm.sx # 0 /\ ctm.sy # 0
         THEN /\ ctm.sx * result.x + ctm.tx * result.den = arg.x * ctm.den * result.den
              /\ ctm.sy * result.y + ctm.ty * result.den = arg.y * ctm.den * result.den
         ELSE /\ result.x = arg.x * result.den
              /\ result.y = arg.y * result.den

C16_Witness ==
  /\ op = "in_local_coordinates"
  /\ surface = "Some" /\ ctm.sx = 2
  /\ result.x # arg.x * result.den

\* C17: with a surface attached the canvas holds as many outstanding saves as
\* the state stack holds States, and every canvas restore() a pop issues
\* matches a canvas save() issued by an earlier push.
C17_BackendMirrorsStack ==
  /\ surface = "Some" => Len(mc_stack) = Len(state_stack)
  /\ (op = "pop" /\ \E i \in 1..Len(calls) : calls[i].fn = "restore") =>
       (matched # NoValue /\ matched.backend)

(***************************************************************************)
(* Claims about the ref queue, checked under SpecRefs.                      *)
(***************************************************************************)
\* C18: once an object has been stashed, fetch_ref returns the object live in
\* State, the one stashed last at this depth or else inherited from the
\* enclosing push; it returns no object stashed inside a save level that has
\* been restored, and undefined only when no object is live.
C18_FetchReturnsLiveRef ==
  (op = "fetch_ref" /\ queue # NoValue) =>
    result = IF state.fill_style.kind = "Gradient"
               THEN state.fill_style.shader
               ELSE Undefined

====
